---- MODULE Spec2Model ----
(***************************************************************************)
(* Weekly iGaming digest agent (src/main.py): the content curation          *)
(* pipeline.  Text is modelled character by character: a string is a        *)
(* sequence of one-character strings, so that lower(), strip(), split(),    *)
(* substring tests, urlparse().netloc and difflib's ratio are computed as   *)
(* the program computes them.                                               *)
(***************************************************************************)
EXTENDS Integers, Sequences, FiniteSets, TLC

VARIABLES
    pc,           \* position of the operation under way
    items,        \* the sequence of Items an operation is applied to
    out,          \* what the operation returned
    out2,         \* what the operation returned when applied to its own result
    focus,        \* FocusConfig as parse_focus returns it, or None
    major_terms,  \* the configured major keywords
    card,         \* which summarizer runs: "news" (llm_two_paras) or "game"
    attempt,      \* the iteration of _llm_json's loop, from 1
    calls,        \* Completion Service calls issued for the Item, per tier
    en,           \* the primary-language text returned
    he,           \* the secondary-language text returned
    tier,         \* the tier that produced the returned pair, 0 before
    collected,    \* the collected map of __main__: section name -> list
    top,          \* the games bucket of build_games_section
    fetched,      \* whether build_games_section queried the fallback feeds
    ranked_extra, \* the ranked backfill candidates of build_games_section
    used_links,   \* links of the games bucket, as returned to build_email
    used_titles,  \* titles of the games bucket, as returned to build_email
    news,         \* the news bucket build_email hands to summarize_cards
    src,          \* the sources configuration load_sources returned
    trends,       \* the trend narratives build_trends_section rendered
    trends_asked, \* build_trends_section has called the Completion Service
    abort_line    \* the source line whose unhandled exception ended the run, or 0

sumVars == <<card, attempt, calls, en, he, tier>>

gamesVars == <<collected, top, fetched, ranked_extra, used_links, used_titles, news>>

runVars == <<src, trends, trends_asked, abort_line>>

vars == <<pc, items, out, out2, focus, major_terms, sumVars, gamesVars, runVars>>

\* Python's None, where a FocusConfig is expected
None == [none |-> TRUE]

---------------------------------------------------------------------------
(* Python string primitives over character sequences *)

UPPER == <<"A","B","C","D","E","F","G","H","I","J","K","L","M",
           "N","O","P","Q","R","S","T","U","V","W","X","Y","Z">>
LOWERCASE == <<"a","b","c","d","e","f","g","h","i","j","k","l","m",
               "n","o","p","q","r","s","t","u","v","w","x","y","z">>

\* str.lower() on one character
LowerChar(c) ==
    IF \E i \in 1..26 : UPPER[i] = c
    THEN LOWERCASE[CHOOSE i \in 1..26 : UPPER[i] = c]
    ELSE c

\* str.lower()
Lower(s) == [i \in 1..Len(s) |-> LowerChar(s[i])]

\* str.isspace() on one character
IsSpace(c) == c \in {" ", "\t", "\n", "\r"}

\* needle in hay
Contains(hay, needle) ==
    \E i \in 0..(Len(hay) - Len(needle)) :
        \A j \in 1..Len(needle) : hay[i + j] = needle[j]

\* s.endswith(suf)
EndsWith(s, suf) ==
    /\ Len(suf) <= Len(s)
    /\ \A j \in 1..Len(suf) : s[Len(s) - Len(suf) + j] = suf[j]

\* s.startswith(pre)
StartsWith(s, pre) ==
    /\ Len(pre) <= Len(s)
    /\ \A j \in 1..Len(pre) : s[j] = pre[j]

\* s.strip()
Strip(s) ==
    IF \A i \in 1..Len(s) : IsSpace(s[i]) THEN <<>>
    ELSE LET lo == CHOOSE i \in 1..Len(s) :
                       ~IsSpace(s[i]) /\ \A j \in 1..(i-1) : IsSpace(s[j])
             hi == CHOOSE i \in 1..Len(s) :
                       ~IsSpace(s[i]) /\ \A j \in (i+1)..Len(s) : IsSpace(s[j])
         IN  SubSeq(s, lo, hi)

\* s[:n]
Prefix(s, n) == SubSeq(s, 1, IF n < Len(s) THEN n ELSE Len(s))

\* s.split(): the maximal runs of non-whitespace characters
RECURSIVE SplitFrom(_, _, _)
SplitFrom(s, i, word) ==
    IF i > Len(s) THEN (IF word = <<>> THEN <<>> ELSE <<word>>)
    ELSE IF IsSpace(s[i])
         THEN (IF word = <<>> THEN <<>> ELSE <<word>>) \o SplitFrom(s, i + 1, <<>>)
         ELSE SplitFrom(s, i + 1, Append(word, s[i]))

Split(s) == SplitFrom(s, 1, <<>>)

\* sep.join(words)
RECURSIVE Join(_, _)
Join(sep, words) ==
    IF words = <<>> THEN <<>>
    ELSE IF Len(words) = 1 THEN words[1]
    ELSE words[1] \o sep \o Join(sep, Tail(words))

\* any(p in txt for p in patterns)
AnyIn(patterns, txt) == \E i \in 1..Len(patterns) : Contains(txt, patterns[i])

SP == <<" ">>

\* An Item is the dict built at src/main.py:90-96; "source" is written to the
\* audit log only and is left out.
Item(t, l, s, sec) == [title |-> t, link |-> l, summary |-> s, section |-> sec]

---------------------------------------------------------------------------
(* dedup_items, src/main.py:99-106 *)

\* the key without .lower(): titles are compared case-sensitively
DedupKey_caseSensitive(it) == <<it.title, it.link>>

\* k = (it.get("title","").lower(), it.get("link",""))
DedupKey(it) == <<Lower(it.title), it.link>>

\* duplicates removed from the list while it is iterated: the element after a
\* removed duplicate is never examined
RECURSIVE DedupLoop_removeInPlace(_, _, _)
DedupLoop_removeInPlace(rest, seen, acc) ==
    IF rest = <<>> THEN acc
    ELSE LET it == Head(rest)
             k  == <<Lower(it.title), it.link>>
         IN  IF k \in seen
             THEN IF Len(rest) = 1 THEN acc
                  ELSE DedupLoop_removeInPlace(Tail(Tail(rest)), seen, Append(acc, rest[2]))
             ELSE DedupLoop_removeInPlace(Tail(rest), seen \cup {k}, Append(acc, it))

RECURSIVE DedupLoop(_, _, _)
DedupLoop(rest, seen, acc) ==
    IF rest = <<>> THEN acc
    ELSE LET it == Head(rest)
             k  == DedupKey(it)
         IN  IF k \in seen
             THEN DedupLoop(Tail(rest), seen, acc)
             ELSE DedupLoop(Tail(rest), seen \cup {k}, Append(acc, it))

dedup_items(s) == DedupLoop(s, {}, <<>>)

---------------------------------------------------------------------------
(* Relevance scorer, src/main.py:108-172 *)

FOCUS_THRESHOLD == 1

NON_UK_HINTS ==
    << <<" ","u","s","a"," ">>,   \* ' usa '
       <<" ","u","s"," ">>,   \* ' us '
       <<" ","u","n","i","t","e","d"," ","s","t","a","t","e","s">>,   \* ' united states'
       <<" ","n","e","w"," ","j","e","r","s","e","y">>,   \* ' new jersey'
       <<" ","n","e","v","a","d","a">>,   \* ' nevada'
       <<" ","c","a","n","a","d","a">>,   \* ' canada'
       <<" ","o","n","t","a","r","i","o">>,   \* ' ontario'
       <<" ","a","u","s","t","r","a","l","i","a">>,   \* ' australia'
       <<" ","n","e","w"," ","z","e","a","l","a","n","d">>,   \* ' new zealand'
       <<" ","i","n","d","i","a">>,   \* ' india'
       <<" ","b","r","a","z","i","l">>,   \* ' brazil'
       <<" ","a","f","r","i","c","a">>,   \* ' africa'
       <<" ","p","h","i","l","i","p","p","i","n","e","s">> >>   \* ' philippines'

\* is_major with the terms compared as written, not lowercased
is_major_caseSensitive(body, terms) == AnyIn(terms, Lower(body))

\* is_major(body, terms)
is_major(body, terms) ==
    \E i \in 1..Len(terms) : Contains(Lower(body), Lower(terms[i]))

SchemeChars ==
    {UPPER[i] : i \in 1..26} \cup {LOWERCASE[i] : i \in 1..26}
        \cup {"0","1","2","3","4","5","6","7","8","9","+","-","."}

\* the position of the first character of s at or after i that is in set D,
\* Len(s) + 1 when there is none
RECURSIVE FindFirst(_, _, _)
FindFirst(s, i, D) ==
    IF i > Len(s) THEN Len(s) + 1
    ELSE IF s[i] \in D THEN i ELSE FindFirst(s, i + 1, D)

\* urlparse(link).netloc: the scheme, when the text before the first ":" is
\* one, is cut off; the netloc is what follows a leading "//" up to the first
\* of "/", "?" and "#"
Netloc(link) ==
    LET c    == FindFirst(link, 1, {":"})
        isScheme ==
            /\ c > 1 /\ c <= Len(link)
            /\ link[1] \in ({UPPER[i] : i \in 1..26} \cup {LOWERCASE[i] : i \in 1..26})
            /\ \A j \in 1..(c - 1) : link[j] \in SchemeChars
        rest == IF isScheme THEN SubSeq(link, c + 1, Len(link)) ELSE link
    IN  IF StartsWith(rest, <<"/","/">>)
        THEN SubSeq(rest, 3, FindFirst(rest, 3, {"/", "?", "#"}) - 1)
        ELSE <<>>

\* host_matches_suffix(link, suffixes)
host_matches_suffix(link, suffixes) ==
    \E i \in 1..Len(suffixes) : EndsWith(Lower(Netloc(link)), suffixes[i])

\* host_in_pref(link, domains)
host_in_pref(link, domains) ==
    \E i \in 1..Len(domains) : EndsWith(Lower(Netloc(link)), domains[i])

\* sum(1 for k in terms if k in txt)
CountIn(terms, txt) == Cardinality({i \in 1..Len(terms) : Contains(txt, terms[i])})

\* txt = f" {title} {summary} {link} ".lower()
FocusText(it) == Lower(SP \o it.title \o SP \o it.summary \o SP \o it.link \o SP)

\* score_focus(it, focus)
score_focus(it, f) ==
    IF f = None THEN 0
    ELSE LET txt == FocusText(it)
         IN  (IF host_matches_suffix(it.link, f.suffixes) THEN 2 ELSE 0)
             + (IF host_in_pref(it.link, f.source_domains_prefer) THEN 3 ELSE 0)
             + CountIn(f.keywords, txt)
             + 2 * CountIn(f.companies, txt)
             - (IF AnyIn(NON_UK_HINTS, txt) THEN 2 ELSE 0)

\* f"{it['title']} {it['summary']}"
MajorBody(it) == it.title \o SP \o it.summary

\* the filter with the score compared by > instead of >=
FocusKeeps_strict(it, f, terms) ==
    score_focus(it, f) > FOCUS_THRESHOLD \/ is_major(MajorBody(it), terms)

\* the condition of src/main.py:170
FocusKeeps(it, f, terms) ==
    score_focus(it, f) >= FOCUS_THRESHOLD \/ is_major(MajorBody(it), terms)

RECURSIVE FocusLoop(_, _, _, _)
FocusLoop(rest, f, terms, kept) ==
    IF rest = <<>> THEN kept
    ELSE FocusLoop(Tail(rest), f, terms,
                   IF FocusKeeps(Head(rest), f, terms)
                   THEN Append(kept, Head(rest)) ELSE kept)

\* apply_focus_filter(items, focus, major_terms)
apply_focus_filter(s, f, terms) ==
    IF f = None THEN s ELSE FocusLoop(s, f, terms, <<>>)

---------------------------------------------------------------------------
(* Section classifier and games ranking score, src/main.py:413-441 *)

GAME_KEYWORDS ==
    << <<"s","l","o","t">>,   \* 'slot'
       <<"n","e","w"," ","s","l","o","t">>,   \* 'new slot'
       <<"s","l","o","t","s">>,   \* 'slots'
       <<"m","e","g","a","w","a","y","s">>,   \* 'megaways'
       <<"j","a","c","k","p","o","t">>,   \* 'jackpot'
       <<"j","a","c","k","p","o","t","s">>,   \* 'jackpots'
       <<"l","a","u","n","c","h">>,   \* 'launch'
       <<"l","a","u","n","c","h","e","s">>,   \* 'launches'
       <<"r","e","l","e","a","s","e","d">>,   \* 'released'
       <<"r","e","l","e","a","s","e">>,   \* 'release'
       <<"u","n","v","e","i","l","s">>,   \* 'unveils'
       <<"r","o","l","l","s"," ","o","u","t">>,   \* 'rolls out'
       <<"l","i","v","e"," ","c","a","s","i","n","o">>,   \* 'live casino'
       <<"g","a","m","e"," ","s","h","o","w">>,   \* 'game show'
       <<"c","r","a","s","h"," ","g","a","m","e">>,   \* 'crash game'
       <<"i","n","s","t","a","n","t"," ","w","i","n">>,   \* 'instant win'
       <<"r","o","u","l","e","t","t","e">>,   \* 'roulette'
       <<"b","l","a","c","k","j","a","c","k">>,   \* 'blackjack'
       <<"b","a","c","c","a","r","a","t">>,   \* 'baccarat'
       <<"t","a","b","l","e"," ","g","a","m","e">> >>   \* 'table game'

STUDIO_KEYWORDS ==
    << <<"e","v","o","l","u","t","i","o","n">>,   \* 'evolution'
       <<"n","e","t","e","n","t">>,   \* 'netent'
       <<"r","e","d"," ","t","i","g","e","r">>,   \* 'red tiger'
       <<"b","i","g"," ","t","i","m","e"," ","g","a","m","i","n","g">>,   \* 'big time gaming'
       <<"b","t","g">>,   \* 'btg'
       <<"p","r","a","g","m","a","t","i","c"," ","p","l","a","y">>,   \* 'pragmatic play'
       <<"p","l","a","y","t","e","c","h">>,   \* 'playtech'
       <<"l","i","g","h","t"," ","&"," ","w","o","n","d","e","r">>,   \* 'light & wonder'
       <<"s","c","i","e","n","t","i","f","i","c"," ","g","a","m","e","s">>,   \* 'scientific games'
       <<"g","a","m","e","s"," ","g","l","o","b","a","l">>,   \* 'games global'
       <<"b","l","u","e","p","r","i","n","t">>,   \* 'blueprint'
       <<"r","e","l","a","x"," ","g","a","m","i","n","g">>,   \* 'relax gaming'
       <<"y","g","g","d","r","a","s","i","l">>,   \* 'yggdrasil'
       <<"e","l","k"," ","s","t","u","d","i","o","s">>,   \* 'elk studios'
       <<"n","o","l","i","m","i","t"," ","c","i","t","y">>,   \* 'nolimit city'
       <<"h","a","c","k","s","a","w">>,   \* 'hacksaw'
       <<"p","u","s","h"," ","g","a","m","i","n","g">>,   \* 'push gaming'
       <<"p","l","a","y","'","n"," ","g","o">>,   \* "play'n go"
       <<"s","p","i","n","o","m","e","n","a","l">>,   \* 'spinomenal'
       <<"i","s","o","f","t","b","e","t">>,   \* 'isoftbet'
       <<"g","r","e","e","n","t","u","b","e">>,   \* 'greentube'
       <<"q","u","i","c","k","s","p","i","n">> >>   \* 'quickspin'

\* t = f" {title} {summary} ".lower()
ClassifyText(it) == Lower(SP \o it.title \o SP \o it.summary \o SP)

\* is_game_item(it)
is_game_item(it) ==
    AnyIn(GAME_KEYWORDS, ClassifyText(it)) \/ AnyIn(STUDIO_KEYWORDS, ClassifyText(it))

\* t = f" {title} {summary} {link} ".lower()
GameText(it) == Lower(SP \o it.title \o SP \o it.summary \o SP \o it.link \o SP)

W_couk     == <<".","c","o",".","u","k">>
W_dotuk    == <<".","u","k">>
W_uk       == <<" ","u","k"," ">>
W_britain  == <<"b","r","i","t","a","i","n">>
W_unitedkingdom == <<"u","n","i","t","e","d"," ","k","i","n","g","d","o","m">>
W_england  == <<"e","n","g","l","a","n","d">>
W_launch   == <<"l","a","u","n","c","h">>
W_released == <<"r","e","l","e","a","s","e","d">>
W_unveils  == <<"u","n","v","e","i","l","s">>
W_megaways == <<"m","e","g","a","w","a","y","s">>
W_jackpot  == <<"j","a","c","k","p","o","t">>
W_gameshow == <<"g","a","m","e"," ","s","h","o","w">>

\* src/main.py:433
GameTermPts(t) == IF AnyIn(GAME_KEYWORDS, t) THEN 2 ELSE 0
\* src/main.py:434
StudioPts(t) == IF AnyIn(STUDIO_KEYWORDS, t) THEN 2 ELSE 0
\* src/main.py:435: ".co.uk" in t or t.strip().endswith(".uk")
UkDomainPts(t) ==
    IF Contains(t, W_couk) \/ EndsWith(Strip(t), W_dotuk) THEN 2 ELSE 0
\* src/main.py:436
RegionPts(t) ==
    IF AnyIn(<<W_uk, W_britain, W_unitedkingdom, W_england>>, t) THEN 2 ELSE 0
\* src/main.py:437
NoveltyPts(t) == IF AnyIn(<<W_launch, W_released, W_unveils>>, t) THEN 1 ELSE 0
\* src/main.py:438
MechanicPts(t) == IF AnyIn(<<W_megaways, W_jackpot, W_gameshow>>, t) THEN 1 ELSE 0
\* src/main.py:439: max(0, score_focus(it, focus))
FocusPts(it, f) == IF score_focus(it, f) > 0 THEN score_focus(it, f) ELSE 0
\* src/main.py:440
NonUkPenalty(t) == IF AnyIn(NON_UK_HINTS, t) THEN 2 ELSE 0

\* _game_score(it, focus)
_game_score(it, f) ==
    LET t == GameText(it)
    IN  GameTermPts(t) + StudioPts(t) + UkDomainPts(t) + RegionPts(t)
        + NoveltyPts(t) + MechanicPts(t) + FocusPts(it, f) - NonUkPenalty(t)

---------------------------------------------------------------------------
(* Title similarity, src/main.py:443-449.  difflib.SequenceMatcher without   *)
(* junk: the longest matching block, then the pieces left and right of it.   *)
(* The "autojunk" heuristic only acts on titles of 200 characters or more.   *)

\* re.sub(r"\s+", " ", s)
RECURSIVE CollapseSpaces(_)
CollapseSpaces(s) ==
    IF s = <<>> THEN <<>>
    ELSE IF IsSpace(s[1])
         THEN IF Len(s) > 1 /\ IsSpace(s[2])
              THEN CollapseSpaces(Tail(s))
              ELSE SP \o CollapseSpaces(Tail(s))
         ELSE <<s[1]>> \o CollapseSpaces(Tail(s))

\* _norm_title(s)
_norm_title(s) == CollapseSpaces(Strip(Lower(s)))

\* the length of the common run of a from i and b from j, inside a[..ahi], b[..bhi]
RECURSIVE RunLen(_, _, _, _, _, _)
RunLen(a, b, i, j, ahi, bhi) ==
    IF i > ahi \/ j > bhi \/ a[i] # b[j] THEN 0
    ELSE 1 + RunLen(a, b, i + 1, j + 1, ahi, bhi)

\* find_longest_match: <<i, j, k>>, the longest block a[i..i+k-1] = b[j..j+k-1]
\* within a[alo..ahi] and b[blo..bhi]; of the longest, the one starting
\* earliest in a, and of those the one starting earliest in b
LongestMatch(a, b, alo, ahi, blo, bhi) ==
    LET all == {<<i, j, RunLen(a, b, i, j, ahi, bhi)>> : i \in alo..ahi, j \in blo..bhi}
    IN  IF all = {} THEN <<alo, blo, 0>>
        ELSE CHOOSE m \in all :
               \A o \in all :
                  \/ m[3] > o[3]
                  \/ m[3] = o[3] /\ m[1] < o[1]
                  \/ m[3] = o[3] /\ m[1] = o[1] /\ m[2] <= o[2]

\* the total size of get_matching_blocks()
RECURSIVE Matches(_, _, _, _, _, _)
Matches(a, b, alo, ahi, blo, bhi) ==
    IF alo > ahi \/ blo > bhi THEN 0
    ELSE LET m == LongestMatch(a, b, alo, ahi, blo, bhi)
         IN  IF m[3] = 0 THEN 0
             ELSE m[3]
                  + Matches(a, b, alo, m[1] - 1, blo, m[2] - 1)
                  + Matches(a, b, m[1] + m[3], ahi, m[2] + m[3], bhi)

\* thr = 0.90, as THR_NUM / THR_DEN
THR_NUM == 90
THR_DEN == 100

\* ratio() is 2.0 * matches / (len(a) + len(b)), and 1.0 for two empty strings
RatioAtLeast(a, b, num, den) ==
    IF Len(a) + Len(b) = 0 THEN TRUE
    ELSE 2 * Matches(a, b, 1, Len(a), 1, Len(b)) * den >= num * (Len(a) + Len(b))

\* similarity on the raw titles, without _norm_title
_is_title_similar_raw(a, b) == RatioAtLeast(a, b, THR_NUM, THR_DEN)

\* _is_title_similar(a, b)
_is_title_similar(a, b) == RatioAtLeast(_norm_title(a), _norm_title(b), THR_NUM, THR_DEN)

\* sorted(s, key=lambda it: _game_score(it, focus), reverse=True): stable
RECURSIVE InsertRanked(_, _, _)
InsertRanked(sorted, it, f) ==
    IF sorted = <<>> THEN <<it>>
    ELSE IF _game_score(Head(sorted), f) >= _game_score(it, f)
         THEN <<Head(sorted)>> \o InsertRanked(Tail(sorted), it, f)
         ELSE <<it>> \o sorted

RECURSIVE SortedByGameScore(_, _)
SortedByGameScore(s, f) ==
    IF s = <<>> THEN <<>>
    ELSE InsertRanked(SortedByGameScore(SubSeq(s, 1, Len(s) - 1), f), s[Len(s)], f)

---------------------------------------------------------------------------
(* Normalizer, src/main.py:59-97.  A raw feed entry is                        *)
(* [title, link, summary, dated, age]: dated says whether the entry carries  *)
(* a publication time, age is that time's distance from now in days.        *)

LOOKBACK_DAYS == 7
FALLBACK_DAYS == 21
SUMMARY_MAX == 2500
MAX_ITEMS_PER_SECTION == 12
MAJOR_ONLY_NON_CASINO == TRUE

\* within_lookback(published_struct, days); days = 0 stands for None, which
\* "days or LOOKBACK_DAYS" treats alike
within_lookback(dated, age, days) ==
    ~dated \/ age <= (IF days = 0 THEN LOOKBACK_DAYS ELSE days)

\* strip_tags(text): re.sub(r"<[^>]+>", "", text)
RECURSIVE strip_tags(_)
strip_tags(s) ==
    IF s = <<>> THEN <<>>
    ELSE IF s[1] = "<"
         THEN LET close == FindFirst(s, 2, {">"})
              IN  IF close <= Len(s) /\ close > 2
                  THEN strip_tags(SubSeq(s, close + 1, Len(s)))
                  ELSE <<s[1]>> \o strip_tags(Tail(s))
         ELSE <<s[1]>> \o strip_tags(Tail(s))

\* the body of the loop over d.entries, src/main.py:82-96: no Item or one
NormalizeEntry(e, section_name, days) ==
    LET title == Strip(e.title)
        link  == Strip(e.link)
    IN  IF title = <<>> \/ link = <<>> THEN <<>>
        ELSE IF e.dated /\ ~within_lookback(e.dated, e.age, days) THEN <<>>
        ELSE <<Item(title, link, Prefix(strip_tags(e.summary), SUMMARY_MAX), section_name)>>

RECURSIVE NormalizeEntries(_, _, _)
NormalizeEntries(entries, section_name, days) ==
    IF entries = <<>> THEN <<>>
    ELSE NormalizeEntry(Head(entries), section_name, days)
           \o NormalizeEntries(Tail(entries), section_name, days)

\* what fetch_feed(url) gives: a failure (None, or a feed with bozo set) or entries
FeedFailed == [ok |-> FALSE, entries |-> <<>>]
Feed(entries) == [ok |-> TRUE, entries |-> entries]

\* collect_rss_items(section_name, urls, lookback_days=days), the feeds
\* answering results[i] for urls[i]
RECURSIVE collect_rss_items(_, _, _)
collect_rss_items(section_name, results, days) ==
    IF results = <<>> THEN <<>>
    ELSE (IF Head(results).ok
          THEN NormalizeEntries(Head(results).entries, section_name, days)
          ELSE <<>>)
           \o collect_rss_items(section_name, Tail(results), days)

\* one pass of the loop of __main__ over the RSS sections, src/main.py:679-685
MainBucket(section, its, f, terms) ==
    LET d == dedup_items(its)
        m == IF section \in {"poker_rss", "bingo_rss"} /\ MAJOR_ONLY_NON_CASINO
             THEN SelectSeq(d, LAMBDA it : is_major(MajorBody(it), terms))
             ELSE d
        k == apply_focus_filter(m, f, terms)
    IN  IF MAX_ITEMS_PER_SECTION > 0 THEN Prefix(k, MAX_ITEMS_PER_SECTION) ELSE k

---------------------------------------------------------------------------
(* Games bucket and cross-section suppression, src/main.py:468-554 *)

\* GAMES_TARGET and NEWS_MAX are read from the environment (src/main.py:39-40,
\* defaults 5 and 6); the model runs a deployment that sets them small
GAMES_TARGET == 2
NEWS_MAX == 1

\* src/main.py:470-475
Candidates(c) ==
    LET game(sec) == SelectSeq(c[sec], is_game_item)
    IN  dedup_items(game("news_rss") \o game("games_rss")
                      \o game("bingo_rss") \o game("poker_rss"))

\* src/main.py:478-481
PrimaryTop(c, f) == Prefix(SortedByGameScore(Candidates(c), f), GAMES_TARGET)

\* the backfill test with <= for <
NeedsBackfill_orEqual(t) == Len(t) <= GAMES_TARGET

\* src/main.py:482
NeedsBackfill(t) == Len(t) < GAMES_TARGET

\* src/main.py:489-495
SafeExtra(extra, t) ==
    SelectSeq(extra, LAMBDA it :
        /\ \A i \in 1..Len(t) : it.link # t[i].link
        /\ \A i \in 1..Len(t) : ~_is_title_similar(it.title, t[i].title))

\* src/main.py:485-496
RankedExtra(results, t, f) ==
    LET raw   == collect_rss_items("games_rss_fallback", results,
                                   IF LOOKBACK_DAYS > FALLBACK_DAYS
                                   THEN LOOKBACK_DAYS ELSE FALLBACK_DAYS)
        extra == dedup_items(SelectSeq(raw, is_game_item))
    IN  SortedByGameScore(SafeExtra(extra, t), f)

\* the suppression by link only, without the title test
Suppressed_linkOnly(it, links, titles) == it.link \in links

\* src/main.py:549-552
Suppressed(it, links, titles) ==
    \/ it.link \in links
    \/ \E t \in titles : _is_title_similar(it.title, t)

\* src/main.py:546-554
FilteredNews(c, links, titles) ==
    Prefix(SelectSeq(c["news_rss"], LAMBDA it : ~Suppressed(it, links, titles)), NEWS_MAX)

RunIdle ==
    /\ src = <<>>
    /\ trends = <<>>
    /\ trends_asked = FALSE
    /\ abort_line = 0

GamesIdle ==
    /\ collected = <<>>
    /\ top = <<>>
    /\ fetched = FALSE
    /\ ranked_extra = <<>>
    /\ used_links = {}
    /\ used_titles = {}
    /\ news = <<>>

---------------------------------------------------------------------------
(* Summarizer: _llm_json (src/main.py:175-201), llm_two_paras               *)
(* (src/main.py:280-314) and _summarize_game_card (src/main.py:451-466).    *)
(* One action per Completion Service call; what the service answers is the  *)
(* environment's choice.                                                    *)

TRIES == 2
NEWS_SNIPPET_MAX == 300
GAME_SNIPPET_MAX == 160

SEE_SOURCE == <<"S","e","e"," ","s","o","u","r","c","e",".">>
DELIM == <<"\n","-","-","-","\n">>

\* What one call to client.chat.completions.create does: it raises, or it
\* returns a message whose content is a JSON object with the fields "en" and
\* "he", some other JSON value, or text that is not JSON.
Raises == [kind |-> "raise", en |-> <<>>, he |-> <<>>, text |-> <<>>]
JsonObj(e, h) == [kind |-> "json_obj", en |-> e, he |-> h, text |-> <<>>]
JsonOther == [kind |-> "json_other", en |-> <<>>, he |-> <<>>, text |-> <<"[","]">>]
Plain(t) == [kind |-> "plain", en |-> <<>>, he |-> <<>>, text |-> t]

Responses ==
    {Raises, JsonOther}
      \cup {JsonObj(e, h) : e \in {<<>>, <<" ">>, <<"E">>}, h \in {<<>>, <<"H">>}}
      \cup {Plain(t) : t \in { <<>>, <<"E">>, <<"E">> \o DELIM \o <<"H">>,
                               DELIM \o <<"H">>, <<" ">> \o DELIM \o <<" ">> }}

\* r.choices[0].message.content, as text
Content(r) ==
    IF r.kind = "json_obj"
    THEN <<"{">> \o r.en \o <<",">> \o r.he \o <<"}">>
    ELSE r.text

\* json.loads(content.strip()) raises
JsonFails(r) == r.kind \in {"raise", "plain"}

\* the call failed: transport error or unparseable output
CallFailed(r, structured) == IF structured THEN JsonFails(r) ELSE r.kind = "raise"

\* text.split("\n---\n", 1)
SplitDelim(text) ==
    IF Contains(text, DELIM)
    THEN LET i == CHOOSE k \in 0..(Len(text) - Len(DELIM)) :
                     /\ SubSeq(text, k + 1, k + Len(DELIM)) = DELIM
                     /\ \A m \in 0..(k - 1) : SubSeq(text, m + 1, m + Len(DELIM)) # DELIM
         IN  <<SubSeq(text, 1, i), SubSeq(text, i + Len(DELIM) + 1, Len(text))>>
    ELSE <<text>>

\* it.get("summary") or it.get("title") or ""
SummaryOrTitle(it) == IF it.summary # <<>> THEN it.summary ELSE it.title

\* " ".join((...).split())[:n]
Snippet(it, n) == Prefix(Join(SP, Split(SummaryOrTitle(it))), n)

\* src/main.py:313-314
NewsHeuristic(it) ==
    IF Snippet(it, NEWS_SNIPPET_MAX) # <<>> THEN Snippet(it, NEWS_SNIPPET_MAX) ELSE SEE_SOURCE

\* src/main.py:464-465
GameHeuristic(it) ==
    IF Snippet(it, GAME_SNIPPET_MAX) # <<>> THEN Snippet(it, GAME_SNIPPET_MAX) ELSE it.title

SumIdle ==
    /\ card = "none"
    /\ attempt = 0
    /\ calls = [structured |-> 0, delimited |-> 0, failed |-> 0]
    /\ en = <<>>
    /\ he = <<>>
    /\ tier = 0

Return(e, h, t) ==
    /\ en' = e
    /\ he' = h
    /\ tier' = t
    /\ pc' = "summ_done"

\* what the caller does with the value _llm_json returned
\* (src/main.py:288-291 and src/main.py:461-466)
OnJsonReturned(r) ==
    IF card = "news"
    THEN IF r.kind = "json_obj" /\ (Strip(r.en) # <<>> \/ Strip(r.he) # <<>>)
         THEN Return(Strip(r.en), Strip(r.he), 1)
         ELSE pc' = "delim_call" /\ UNCHANGED <<en, he, tier>>
    ELSE IF r.kind = "json_obj"
         THEN Return(Strip(r.en), Strip(r.he), 1)
         ELSE Return(GameHeuristic(items[1]), <<>>, 3)

\* what the caller does when _llm_json raised (src/main.py:292 and 463)
OnJsonRaised ==
    IF card = "news"
    THEN pc' = "delim_call" /\ UNCHANGED <<en, he, tier>>
    ELSE Return(GameHeuristic(items[1]), <<>>, 3)

Count(r, structured) ==
    calls' = [calls EXCEPT
                ![IF structured THEN "structured" ELSE "delimited"] = @ + 1,
                !.failed = @ + (IF CallFailed(r, structured) THEN 1 ELSE 0)]

\* llm_two_paras(it) or _summarize_game_card(it) is entered
StartSummary ==
    /\ pc = "summ"
    /\ pc' = "json_first"
    /\ attempt' = 1
    /\ UNCHANGED <<runVars, gamesVars, items, out, out2, focus, major_terms, card, calls, en, he, tier>>

\* the call with response_format json_object, src/main.py:179-186
JsonFirstCall ==
    /\ pc = "json_first"
    /\ \E r \in Responses :
          /\ Count(r, TRUE)
          /\ IF JsonFails(r)
             THEN pc' = "json_second" /\ UNCHANGED <<en, he, tier>>
             ELSE OnJsonReturned(r)
    /\ UNCHANGED <<runVars, gamesVars, items, out, out2, focus, major_terms, card, attempt>>

\* the call repeated without response_format, src/main.py:190-200; after the
\* last iteration _llm_json raises (src/main.py:201)
JsonSecondCall ==
    /\ pc = "json_second"
    /\ \E r \in Responses :
          /\ Count(r, TRUE)
          /\ IF JsonFails(r)
             THEN IF attempt < TRIES
                  THEN /\ attempt' = attempt + 1
                       /\ pc' = "json_first"
                       /\ UNCHANGED <<en, he, tier>>
                  ELSE /\ OnJsonRaised
                       /\ UNCHANGED attempt
             ELSE OnJsonReturned(r) /\ UNCHANGED attempt
    /\ UNCHANGED <<runVars, gamesVars, items, out, out2, focus, major_terms, card>>

\* the delimited-text request and the local heuristic, src/main.py:294-314
DelimCall ==
    /\ pc = "delim_call"
    /\ \E r \in Responses :
          /\ Count(r, FALSE)
          /\ IF r.kind = "raise"
             THEN Return(NewsHeuristic(items[1]), <<>>, 3)
             ELSE LET parts == SplitDelim(Strip(Content(r)))
                      e == Strip(parts[1])
                      h == IF Len(parts) > 1 THEN Strip(parts[2]) ELSE <<>>
                  IN  IF e # <<>> \/ h # <<>>
                      THEN Return(e, h, 2)
                      ELSE Return(NewsHeuristic(items[1]), <<>>, 3)
    /\ UNCHANGED <<runVars, gamesVars, items, out, out2, focus, major_terms, card, attempt>>

---------------------------------------------------------------------------
(* The Items and FocusConfigs the specifications draw their inputs from *)

T_NewSlot  == <<"N","e","w"," ","s","l","o","t">>
T_NEWSLOT  == <<"N","E","W"," ","S","L","O","T">>
T_NewSlots == <<"N","e","w"," ","s","l","o","t","s">>
T_TaxRise  == <<"T","a","x"," ","r","i","s","e">>
T_UsaTax   == <<"U","S","A"," ","t","a","x">>
T_JackpotTax == <<"J","a","c","k","p","o","t"," ","t","a","x">>
T_LiveCasinoRaw == <<" "," ","L","i","v","e"," ","c","a","s","i","n","o"," ">>
T_Roulette == <<"R","o","u","l","e","t","t","e">>

L_couk  == <<"h","t","t","p",":","/","/","a",".","c","o",".","u","k","/","1">>
L_com   == <<"h","t","t","p",":","/","/","b",".","c","o","m","/","2">>
L_orguk == <<"h","t","t","p",":","/","/","c",".","o","r","g",".","u","k","/","3">>
L_uk    == <<"h","t","t","p",":","/","/","d",".","u","k">>

L_ukpath == <<"h","t","t","p",":","/","/","e",".","u","k","/","4">>

S_reels == <<"f","r","e","s","h"," ","r","e","e","l","s">>
S_reelsHtml == <<"<","b",">","f","r","e","s","h"," ","r","e","e","l","s","<","/","b",">">>

K_slots  == <<"s","l","o","t","s">>
K_bet365 == <<"b","e","t","3","6","5">>
K_egr    == <<"e","g","r",".","g","l","o","b","a","l">>
K_TAX    == <<"T","A","X">>

\* FocusConfigs as parse_focus (src/main.py:129-136) returns them
F_UK ==
    [region |-> <<"u","k">>, keywords |-> <<K_slots>>, companies |-> <<K_bet365>>,
     suffixes |-> <<W_couk, W_dotuk>>, source_domains_prefer |-> <<K_egr>>,
     trend_hints |-> <<>>]
F_KW ==
    [region |-> <<>>, keywords |-> <<K_slots>>, companies |-> <<>>,
     suffixes |-> <<>>, source_domains_prefer |-> <<>>, trend_hints |-> <<>>]

FocusConfigs == {None, F_UK, F_KW}

\* all sequences over S of length at most n
SeqUpTo(S, n) == UNION {[1..k -> S] : k \in 0..n}

---------------------------------------------------------------------------
(* Deduplicator: dedup_items applied to any sequence of Items, then to its  *)
(* own result.                                                              *)

MaxLen == 3

DedupUniverse ==
    { Item(T_NewSlot, L_couk, <<>>, "news_rss"),
      Item(T_NEWSLOT, L_couk, <<>>, "news_rss"),      \* differs in case only
      Item(T_NewSlot, L_couk, S_reels, "games_rss"),  \* same key, other fields differ
      Item(T_NewSlots, L_couk, <<>>, "news_rss"),     \* same link, other title
      Item(T_NewSlot, L_com, <<>>, "news_rss") }      \* same title, other link

InitDedup ==
    /\ pc = "dedup"
    /\ items \in SeqUpTo(DedupUniverse, MaxLen)
    /\ out = <<>>
    /\ out2 = <<>>
    /\ focus = None
    /\ major_terms = <<>>
    /\ SumIdle
    /\ GamesIdle
    /\ RunIdle

DedupOnce ==
    /\ pc = "dedup"
    /\ out' = dedup_items(items)
    /\ pc' = "dedup_once"
    /\ UNCHANGED <<runVars, gamesVars, items, out2, focus, major_terms, sumVars>>

DedupTwice ==
    /\ pc = "dedup_once"
    /\ out2' = dedup_items(out)
    /\ pc' = "dedup_twice"
    /\ UNCHANGED <<runVars, gamesVars, items, out, focus, major_terms, sumVars>>

NextDedup == DedupOnce \/ DedupTwice

SpecDedup == InitDedup /\ [][NextDedup]_vars

\* C7: dedup_items is idempotent: applied to its own result it returns that
\* result, the same Items in the same order.
Thm_C7_DedupIdempotent == pc = "dedup_twice" => out2 = out

\* a run where the first pass removed duplicates and kept several Items
Wit_C7_DedupIdempotent ==
    /\ pc = "dedup_twice"
    /\ Len(out) >= 2
    /\ Len(out) < Len(items)

\* the key of the claim: (lowercased title, link)
ClaimKey(it) == <<Lower(it.title), it.link>>

\* the positions of S holding the first occurrence of their key
FirstIdx(S) ==
    {i \in 1..Len(S) : \A j \in 1..(i - 1) : ClaimKey(S[j]) # ClaimKey(S[i])}

\* C8: dedup_items(S) is exactly the subsequence of S made of the first
\* occurrence of each key (lowercased title, link): no key twice in the
\* output, every key of S in the output, kept Items in their order in S.
Thm_C8_DedupFirstOccurrences ==
    pc \in {"dedup_once", "dedup_twice"} =>
        /\ Len(out) = Cardinality(FirstIdx(items))
        /\ \E f \in [1..Len(out) -> FirstIdx(items)] :
              /\ \A a, b \in 1..Len(out) : a < b => f[a] < f[b]
              /\ \A k \in 1..Len(out) : out[k] = items[f[k]]
        /\ \A a, b \in 1..Len(out) : a # b => ClaimKey(out[a]) # ClaimKey(out[b])
        /\ \A i \in 1..Len(items) :
              \E k \in 1..Len(out) : ClaimKey(out[k]) = ClaimKey(items[i])

\* an input with two Items differing only in the case of the title (one is
\* dropped) and two Items with one link and different titles (both kept)
Wit_C8_DedupFirstOccurrences ==
    /\ pc = "dedup_once"
    /\ \E i, j \in 1..Len(items) :
          /\ i < j
          /\ items[i].title # items[j].title
          /\ Lower(items[i].title) = Lower(items[j].title)
          /\ items[i].link = items[j].link
          /\ \A k \in 1..Len(out) : out[k] # items[j]
    /\ \E a, b \in 1..Len(out) :
          /\ out[a].link = out[b].link
          /\ Lower(out[a].title) # Lower(out[b].title)

---------------------------------------------------------------------------
(* Relevance filter: apply_focus_filter applied to any sequence of Items    *)
(* under any FocusConfig and major-keyword list.                            *)

FocusUniverse ==
    { Item(T_NewSlot, L_couk, <<>>, "news_rss"),      \* preferred suffix
      Item(T_NewSlots, L_com, <<>>, "news_rss"),      \* one focus keyword
      Item(T_UsaTax, L_com, <<>>, "news_rss"),        \* non-region hint, major keyword
      Item(T_TaxRise, L_com, <<>>, "news_rss"),       \* major keyword only
      Item(T_NewSlot, L_com, <<>>, "news_rss") }      \* no signal at all

InitFocus ==
    /\ pc = "focus"
    /\ items \in SeqUpTo(FocusUniverse, MaxLen)
    /\ focus \in FocusConfigs
    /\ major_terms \in {<<>>, <<K_TAX>>}
    /\ out = <<>>
    /\ out2 = <<>>
    /\ SumIdle
    /\ GamesIdle
    /\ RunIdle

ApplyFocusFilter ==
    /\ pc = "focus"
    /\ out' = apply_focus_filter(items, focus, major_terms)
    /\ pc' = "focus_done"
    /\ UNCHANGED <<runVars, gamesVars, items, out2, focus, major_terms, sumVars>>

NextFocus == ApplyFocusFilter

SpecFocus == InitFocus /\ [][NextFocus]_vars

\* the Item's text (title and summary) contains a major keyword, case-insensitively
ClaimHasMajor(it, terms) ==
    \E i \in 1..Len(terms) :
        Contains(Lower(it.title \o SP \o it.summary), Lower(terms[i]))

\* C9: with FocusConfig absent apply_focus_filter returns its input; with one
\* present it keeps, in input order, exactly the Items whose score_focus is
\* >= FOCUS_THRESHOLD or whose text contains a major keyword.
Thm_C9_FocusFilterPolicy ==
    pc = "focus_done" =>
        IF focus = None THEN out = items
        ELSE out = SelectSeq(items,
                     LAMBDA it : \/ score_focus(it, focus) >= FOCUS_THRESHOLD
                                 \/ ClaimHasMajor(it, major_terms))

\* a filtered run that kept an Item of negative score for its major keyword,
\* kept an Item scoring exactly the threshold, and dropped another Item
Wit_C9_FocusFilterPolicy ==
    /\ pc = "focus_done"
    /\ focus # None
    /\ \E k \in 1..Len(out) : score_focus(out[k], focus) < 0
    /\ \E k \in 1..Len(out) : score_focus(out[k], focus) = FOCUS_THRESHOLD
    /\ Len(out) < Len(items)

---------------------------------------------------------------------------
(* Games ranking score: _game_score applied to any two Items.               *)

T_EvoLaunches ==
    <<"E","v","o","l","u","t","i","o","n"," ","l","a","u","n","c","h","e","s"," ",
      "g","a","m","e"," ","s","h","o","w">>
T_EvoReleases ==
    <<"E","v","o","l","u","t","i","o","n"," ","r","e","l","e","a","s","e","s"," ",
      "g","a","m","e"," ","s","h","o","w">>

ScoreUniverse ==
    { Item(t, l, <<>>, "games_rss") :
        t \in {T_NewSlot, T_TaxRise, T_EvoLaunches, T_EvoReleases},
        l \in {L_couk, L_com, L_orguk, L_uk, L_ukpath} }

InitScore ==
    /\ pc = "score"
    /\ items \in [1..2 -> ScoreUniverse]
    /\ focus \in FocusConfigs
    /\ major_terms = <<>>
    /\ out = <<>>
    /\ out2 = <<>>
    /\ SumIdle
    /\ GamesIdle
    /\ RunIdle

GameScore ==
    /\ pc = "score"
    /\ out' = [i \in 1..2 |-> _game_score(items[i], focus)]
    /\ pc' = "scored"
    /\ UNCHANGED <<runVars, gamesVars, items, out2, focus, major_terms, sumVars>>

NextScore == GameScore

SpecScore == InitScore /\ [][NextScore]_vars

\* the link's host is a UK-suffixed domain
UkHost(link) == EndsWith(Lower(Netloc(link)), W_dotuk)

\* every factor of the ranking other than the domain suffix is the same for
\* both Items, the relevance contribution of a being no lower than that of b
OtherFactorsEqual(a, b, f) ==
    LET ta == GameText(a)
        tb == GameText(b)
    IN  /\ GameTermPts(ta) = GameTermPts(tb)
        /\ StudioPts(ta) = StudioPts(tb)
        /\ RegionPts(ta) = RegionPts(tb)
        /\ NoveltyPts(ta) = NoveltyPts(tb)
        /\ MechanicPts(ta) = MechanicPts(tb)
        /\ NonUkPenalty(ta) = NonUkPenalty(tb)
        /\ FocusPts(a, f) >= FocusPts(b, f)

\* C10: of two Items with identical title and summary, other factors equal,
\* the one whose link host is a UK-suffixed domain gets the strictly higher
\* _game_score, under any FocusConfig.
Cex_C10_UkHostScoresHigher ==
    ( /\ pc = "scored"
      /\ items[1].title = items[2].title
      /\ items[1].summary = items[2].summary
      /\ UkHost(items[1].link)
      /\ ~UkHost(items[2].link)
      /\ OtherFactorsEqual(items[1], items[2], focus) )
    => out[1] > out[2]

W_release == <<"r","e","l","e","a","s","e">>
W_unveil  == <<"u","n","v","e","i","l">>

\* a verb of novelty (launch / release / unveil) appears in the Item's text
ClaimNovelty(it) == AnyIn(<<W_launch, W_release, W_unveil>>, GameText(it))

\* the sum of the components as the claim lists them
ClaimGameScore(it, f) ==
    LET t == GameText(it)
    IN  GameTermPts(t) + StudioPts(t)
        + (IF UkHost(it.link) THEN 2 ELSE 0)
        + RegionPts(t)
        + (IF ClaimNovelty(it) THEN 1 ELSE 0)
        + MechanicPts(t) + FocusPts(it, f) - NonUkPenalty(t)

\* C11: _game_score is the sum of +2 gameplay term, +2 studio term, +2
\* UK-style domain suffix, +2 region name, +1 verb of novelty (launch /
\* release / unveil), +1 notable mechanic, max(0, score_focus), -2 non-region
\* hint; so an Item with a gameplay term, a studio term, a novelty verb and a
\* mechanic term and no non-region hint scores at least 6 under every
\* FocusConfig.
Cex_C11_GameScoreComponents ==
    pc = "scored" =>
        \A i \in 1..2 :
            /\ out[i] = ClaimGameScore(items[i], focus)
            /\ ( /\ GameTermPts(GameText(items[i])) = 2
                 /\ StudioPts(GameText(items[i])) = 2
                 /\ ClaimNovelty(items[i])
                 /\ MechanicPts(GameText(items[i])) = 1
                 /\ NonUkPenalty(GameText(items[i])) = 0 )
               => out[i] >= 6

---------------------------------------------------------------------------
(* Summarizer: one surfaced Item, summarized as a news card or a game card, *)
(* against a Completion Service that answers each call as it likes.         *)

SummUniverse ==
    { Item(T_NewSlot, L_couk, s, "news_rss") : s \in {<<>>, <<" ">>, S_reels} }

InitSumm ==
    /\ pc = "summ"
    /\ items \in [1..1 -> SummUniverse]
    /\ card \in {"news", "game"}
    /\ attempt = 0
    /\ calls = [structured |-> 0, delimited |-> 0, failed |-> 0]
    /\ en = <<>>
    /\ he = <<>>
    /\ tier = 0
    /\ out = <<>>
    /\ out2 = <<>>
    /\ focus = None
    /\ major_terms = <<>>
    /\ GamesIdle
    /\ RunIdle

NextSumm == StartSummary \/ JsonFirstCall \/ JsonSecondCall \/ DelimCall

SpecSumm == InitSumm /\ [][NextSumm]_vars

\* C1: the summarization step never returns (empty, empty) for an Item with
\* a non-empty title, whatever the Completion Service does on each call.
Cex_C1_SummaryNeverBothEmpty ==
    (pc = "summ_done" /\ items[1].title # <<>>) => ~(en = <<>> /\ he = <<>>)

\* C2: when every Completion Service call fails, the structured tier issues
\* at most two calls for one Item and the Item costs at most 2 + 1 calls.
Cex_C2_BoundedCalls ==
    (calls.failed = calls.structured + calls.delimited) =>
        /\ calls.structured <= 2
        /\ calls.structured + calls.delimited <= 2 + 1

\* C14: for a news or a game Item the tiers are attempted in the order
\* structured, delimited-text, local heuristic: the delimited-text request
\* is issued only after the structured tier gave no usable text, the
\* heuristic is used only after both Completion Service tiers failed, no
\* call is made after a tier succeeded, and a tier-3 result has an empty
\* secondary-language text.
Cex_C14_TiersInOrder ==
    /\ calls.delimited > 0 => calls.structured > 0
    /\ pc = "summ_done" =>
          /\ tier = 1 => calls.delimited = 0
          /\ tier = 2 => (calls.structured > 0 /\ calls.delimited = 1)
          /\ tier = 3 => (calls.structured > 0 /\ calls.delimited = 1 /\ he = <<>>)

---------------------------------------------------------------------------
(* Games bucket: build_games_section entered with any collected map that     *)
(* the section loop of __main__ can build, followed by the suppression of    *)
(* build_email (src/main.py:546-554).  The fallback feeds answer as they     *)
(* like.                                                                     *)

MaxFeed == 4
MaxFallback == 2

GamesUniverse ==
    { Item(T_NewSlot, L_couk, <<>>, "games_rss"),
      Item(T_NewSlots, L_ukpath, <<>>, "news_rss"),   \* near-duplicate title
      Item(T_TaxRise, L_couk, <<>>, "news_rss"),      \* not a game, link of the first
      Item(T_UsaTax, L_com, <<>>, "news_rss"),        \* not a game, major keyword
      Item(T_JackpotTax, L_uk, <<>>, "poker_rss") }

RawEntry(t, l, s, d, a) == [title |-> t, link |-> l, summary |-> s, dated |-> d, age |-> a]

FallbackEntries ==
    { RawEntry(T_NewSlot, L_com, <<>>, TRUE, 10),              \* outside 7 days, inside 21
      RawEntry(T_LiveCasinoRaw, L_orguk, S_reelsHtml, FALSE, 0),
      RawEntry(T_Roulette, L_ukpath, <<>>, TRUE, 30) }         \* outside 21 days

FallbackResults == {FeedFailed} \cup {Feed(e) : e \in SeqUpTo(FallbackEntries, MaxFallback)}

RssSections == {"news_rss", "poker_rss", "bingo_rss", "games_rss"}

\* the RSS buckets after src/main.py:676-685, the feeds having delivered prim
RssBuckets(prim, f, terms) ==
    [sec \in RssSections |->
        MainBucket(sec, SelectSeq(prim, LAMBDA it : it.section = sec), f, terms)]

\* src/main.py:688-692
WithFallbackUrls(buckets, urls, pods) ==
    [sec \in RssSections \cup {"_games_fallback_urls", "podcasts_listennotes"} |->
        IF sec = "_games_fallback_urls" THEN urls
        ELSE IF sec = "podcasts_listennotes" THEN pods
        ELSE buckets[sec]]

InitGames ==
    /\ pc = "games"
    /\ focus \in {None, F_UK}
    /\ major_terms = <<K_TAX>>
    /\ \E buckets \in {RssBuckets(prim, focus, major_terms) : prim \in SeqUpTo(GamesUniverse, MaxFeed)},
          urls \in {<<>>, <<"fallback_feed">>} :
          collected = WithFallbackUrls(buckets, urls, <<>>)
    /\ top = <<>>
    /\ fetched = FALSE
    /\ ranked_extra = <<>>
    /\ used_links = {}
    /\ used_titles = {}
    /\ news = <<>>
    /\ items = <<>>
    /\ out = <<>>
    /\ out2 = <<>>
    /\ SumIdle
    /\ RunIdle

\* build_games_section(collected, focus), src/main.py:468-529
BuildGamesSection ==
    /\ pc = "games"
    /\ LET t    == PrimaryTop(collected, focus)
           urls == collected["_games_fallback_urls"]
       IN  IF NeedsBackfill(t) /\ urls # <<>>
           THEN \E results \in [1..Len(urls) -> FallbackResults] :
                   LET re == RankedExtra(results, t, focus)
                   IN  /\ fetched' = TRUE
                       /\ ranked_extra' = re
                       /\ top' = t \o Prefix(re, GAMES_TARGET - Len(t))
           ELSE /\ fetched' = FALSE
                /\ ranked_extra' = <<>>
                /\ top' = t
    /\ used_links' = {top'[i].link : i \in 1..Len(top')}
    /\ used_titles' = {top'[i].title : i \in 1..Len(top')}
    /\ pc' = "news"
    /\ UNCHANGED <<collected, news, items, out, out2, focus, major_terms, sumVars, runVars>>

\* build_email, src/main.py:546-554
FilterNews ==
    /\ pc = "news"
    /\ news' = FilteredNews(collected, used_links, used_titles)
    /\ pc' = "email_built"
    /\ UNCHANGED <<collected, top, fetched, ranked_extra, used_links, used_titles,
                   items, out, out2, focus, major_terms, sumVars, runVars>>

NextGames == BuildGamesSection \/ FilterNews

SpecGames == InitGames /\ [][NextGames]_vars

\* C4: with a FocusConfig present, every Item of the finalized games bucket,
\* primary pick or backfilled, is game-related and passes relevance
\* filtering (focus score >= FOCUS_THRESHOLD or a major keyword).
Cex_C4_BackfillKeepsPredicates ==
    (pc \in {"news", "email_built"} /\ focus # None) =>
        \A i \in 1..Len(top) :
            /\ is_game_item(top[i])
            /\ \/ score_focus(top[i], focus) >= FOCUS_THRESHOLD
               \/ ClaimHasMajor(top[i], major_terms)

\* the news Item clashes with no Item of the games bucket
ClearOfGames(n) ==
    \A i \in 1..Len(top) :
        /\ n.link # top[i].link
        /\ ~_is_title_similar(n.title, top[i].title)

\* C5: once build_email has the finalized games bucket, no Item of the news
\* bucket's final output has the link of a games-bucket Item or a title
\* near-duplicate to one, and the removal precedes the cut to NEWS_MAX.
Thm_C5_CrossSectionSuppression ==
    pc = "email_built" =>
        /\ \A k \in 1..Len(news) : ClearOfGames(news[k])
        /\ news = Prefix(SelectSeq(collected["news_rss"], ClearOfGames), NEWS_MAX)

\* a run where the first news Item was removed, another was removed for its
\* title alone, and the cut still left NEWS_MAX Items
Wit_C5_CrossSectionSuppression ==
    /\ pc = "email_built"
    /\ Len(collected["news_rss"]) > NEWS_MAX
    /\ ~ClearOfGames(collected["news_rss"][1])
    /\ \E k \in 1..Len(collected["news_rss"]) :
          /\ ~ClearOfGames(collected["news_rss"][k])
          /\ collected["news_rss"][k].link \notin used_links
    /\ Len(news) = NEWS_MAX

\* C6: the fallback feeds are queried only when there are fewer than
\* GAMES_TARGET primary candidates; backfilled Items are appended, in rank
\* order, until the bucket holds GAMES_TARGET Items or none is left, so the
\* bucket never exceeds GAMES_TARGET.
Thm_C6_BackfillOnlyWhenShort ==
    pc \in {"news", "email_built"} =>
        LET n == Len(Candidates(collected))
            primary == IF n < GAMES_TARGET THEN n ELSE GAMES_TARGET
        IN  /\ n >= GAMES_TARGET => ~fetched
            /\ Len(top) <= GAMES_TARGET
            /\ Len(top) = IF primary + Len(ranked_extra) < GAMES_TARGET
                          THEN primary + Len(ranked_extra) ELSE GAMES_TARGET
            /\ \A k \in (primary + 1)..Len(top) : top[k] = ranked_extra[k - primary]
            /\ ~fetched => ranked_extra = <<>>

\* a run that queried the fallback feeds, got more candidates than it needed
\* and filled the bucket exactly
Wit_C6_BackfillOnlyWhenShort ==
    /\ pc = "news"
    /\ fetched
    /\ Len(Candidates(collected)) > 0
    /\ Len(Candidates(collected)) + Len(ranked_extra) > GAMES_TARGET
    /\ Len(top) = GAMES_TARGET

\* C16: after build_games_section no two Items of the finalized games bucket
\* have the same link and no two have near-duplicate titles, whether they
\* are primary picks or backfilled.
Cex_C16_GamesBucketUnique ==
    pc \in {"news", "email_built"} =>
        \A i \in 1..Len(top) : \A j \in (i + 1)..Len(top) :
            /\ top[i].link # top[j].link
            /\ ~_is_title_similar(top[i].title, top[j].title)

---------------------------------------------------------------------------
(* The run: __main__ from load_sources to send_mail, src/main.py:668-707.   *)
(* The required configuration is present, so the assertions of              *)
(* src/main.py:46-49 have passed.  The Feed Source, the podcast search, the *)
(* pages of the must-include URLs, the Completion Service, the Audit Log    *)
(* and the mail transport answer as they like.                              *)

R_UK     == <<" ","U","K"," ">>
R_Slots  == <<"S","l","o","t","s">>
R_Bet365 == <<"B","e","t","3","6","5">>
R_dotUK  == <<".","U","K">>
R_Egr    == <<"E","G","R",".","g","l","o","b","a","l"," ">>
R_UsaTaxHtml == <<"<","b",">","U","S","A","<","/","b",">"," ","t","a","x"," ">>

\* the value under "focus" in sources.yaml: missing, null, a scalar, a mapping
FocusMissing == [kind |-> "absent"]
FocusNull   == [kind |-> "null"]
FocusScalar == [kind |-> "text"]
FocusDict ==
    [kind |-> "dict", region |-> R_UK, keywords |-> <<R_Slots>>,
     companies |-> <<R_Bet365>>, domain_suffixes |-> <<>>,
     domain_suffixes_prefer |-> <<W_couk, R_dotUK>>,
     source_domains_prefer |-> <<R_Egr>>, trend_hints |-> <<>>,
     major_keywords |-> <<K_TAX>>]

\* norm_list of parse_focus, src/main.py:123-128
norm_list(seq) == [i \in 1..Len(seq) |-> Lower(Strip(seq[i]))]

\* parse_focus(sources), src/main.py:119-136
parse_focus(sources) ==
    LET f == sources.focus
    IN  IF f.kind # "dict" THEN None
        ELSE [region |-> Lower(Strip(f.region)),
              keywords |-> norm_list(f.keywords),
              companies |-> norm_list(f.companies),
              suffixes |-> norm_list(IF f.domain_suffixes # <<>>
                                     THEN f.domain_suffixes
                                     ELSE f.domain_suffixes_prefer),
              source_domains_prefer |-> norm_list(f.source_domains_prefer),
              trend_hints |-> norm_list(f.trend_hints)]

\* src/main.py:671 evaluates src.get("focus", {}).get("major_keywords", [])
\* when the top-level list is empty: a null or a scalar has no get
MajorTermsRaises(sources) ==
    /\ sources.major_keywords = <<>>
    /\ sources.focus.kind \in {"null", "text"}

\* src/main.py:671
MajorTerms(sources) ==
    IF sources.major_keywords # <<>> THEN sources.major_keywords
    ELSE IF sources.focus.kind = "dict" THEN sources.focus.major_keywords
    ELSE <<>>

\* the sources configurations load_sources returns, src/main.py:54-56
Sources ==
    [focus : {FocusMissing, FocusNull, FocusScalar, FocusDict},
     major_keywords : {<<>>, <<K_TAX>>},
     news_rss : {<<"news_feed">>},
     poker_rss : {<<"poker_feed">>},
     bingo_rss : {<<>>},
     games_rss : {<<"games_feed">>},
     games_fallback_rss : {<<>>, <<"fallback_feed">>},
     podcasts_listennotes_queries : {<<>>, <<"igaming">>},
     must_include : {<<>>, <<L_com>>}]

\* what the feeds of each section can answer
NewsReplies ==
    { FeedFailed,
      Feed(<<RawEntry(T_TaxRise, L_couk, <<>>, TRUE, 1),
             RawEntry(T_NewSlots, L_ukpath, S_reelsHtml, FALSE, 0)>>),
      Feed(<<RawEntry(<<>>, L_com, <<>>, FALSE, 0),            \* no title
             RawEntry(T_Roulette, L_orguk, <<>>, TRUE, 9),     \* outside 7 days
             RawEntry(T_UsaTax, L_com, <<>>, TRUE, 2)>>) }
PokerReplies ==
    { FeedFailed, Feed(<<RawEntry(T_JackpotTax, L_uk, <<>>, TRUE, 3)>>) }
GamesReplies ==
    { Feed(<<>>),
      Feed(<<RawEntry(T_NewSlot, L_couk, <<>>, TRUE, 0)>>),
      Feed(<<RawEntry(T_NewSlot, L_couk, <<>>, TRUE, 0),
             RawEntry(T_NEWSLOT, L_couk, S_reels, FALSE, 0)>>) }

SectionReplies(section) ==
    IF section = "news_rss" THEN NewsReplies
    ELSE IF section = "poker_rss" THEN PokerReplies
    ELSE IF section = "games_rss" THEN GamesReplies
    ELSE {FeedFailed}

\* LISTENNOTES_API_KEY is set, src/main.py:42
HasListenNotesKey == TRUE

Episode(t, l, d) == [title |-> t, link |-> l, description |-> d]

\* what the podcast search can answer to one query: no usable answer (a
\* status other than 200, an exception) or a list of episodes
SearchFailed == [ok |-> FALSE, results |-> <<>>]
SearchReplies ==
    { SearchFailed,
      [ok |-> TRUE, results |-> <<Episode(T_JackpotTax, L_orguk, S_reelsHtml)>>],
      [ok |-> TRUE, results |-> <<Episode(<<>>, L_com, <<>>),
                                   Episode(T_LiveCasinoRaw, L_com, <<>>)>>],
      [ok |-> TRUE, results |-> <<Episode(<<" ", " ">>, L_orguk, T_TaxRise)>>] }

\* the body of the loop over data["results"], src/main.py:220-231: the
\* emptiness test comes before the strip
EpisodeItem(ep) ==
    IF ep.title = <<>> \/ ep.link = <<>> THEN <<>>
    ELSE <<Item(Strip(ep.title), Strip(ep.link),
                Prefix(Strip(strip_tags(ep.description)), SUMMARY_MAX),
                "podcasts_listennotes")>>

RECURSIVE EpisodeItems(_)
EpisodeItems(eps) ==
    IF eps = <<>> THEN <<>> ELSE EpisodeItem(Head(eps)) \o EpisodeItems(Tail(eps))

RECURSIVE SearchItems(_)
SearchItems(replies) ==
    IF replies = <<>> THEN <<>>
    ELSE (IF Head(replies).ok THEN EpisodeItems(Head(replies).results) ELSE <<>>)
           \o SearchItems(Tail(replies))

\* collect_listennotes_items(queries, major_terms, focus), src/main.py:206-239,
\* the search answering replies[i] to queries[i]
collect_listennotes_items(queries, replies, terms, f) ==
    IF ~HasListenNotesKey \/ queries = <<>> THEN <<>>
    ELSE LET d == dedup_items(SearchItems(replies))
             m == IF MAJOR_ONLY_NON_CASINO
                  THEN SelectSeq(d, LAMBDA it : is_major(MajorBody(it), terms))
                  ELSE d
             k == apply_focus_filter(m, f, terms)
         IN  IF MAX_ITEMS_PER_SECTION > 0 THEN Prefix(k, MAX_ITEMS_PER_SECTION) ELSE k

\* what a must-include URL can answer: no page (a status >= 400, an
\* exception) or a page whose title and description groups matched as given
PageFailed == [ok |-> FALSE, title |-> <<>>, desc |-> <<>>]
PageReplies ==
    { PageFailed,
      [ok |-> TRUE, title |-> R_UsaTaxHtml, desc |-> S_reelsHtml],
      [ok |-> TRUE, title |-> <<>>, desc |-> <<>>] }

\* one pass of the loop of inject_must_include, src/main.py:265-273, with
\* fetch_url_metadata, src/main.py:247-261
MustIncludeItem(u, page) ==
    IF ~page.ok THEN Item(u, u, <<>>, "news_rss")
    ELSE LET title == Strip(strip_tags(page.title))
             desc  == Strip(strip_tags(page.desc))
         IN  Item(IF title = <<>> THEN u ELSE title, u, desc, "news_rss")

\* inject_must_include(urls), the pages answering pages[i] for urls[i]
inject_must_include(urls, pages) ==
    [i \in 1..Len(urls) |-> MustIncludeItem(urls[i], pages[i])]

\* src/main.py:38
TRENDS_TARGET == 3

\* an entry of the "trends" list of the Completion Service's JSON: a mapping
\* or anything else
TrendDict == [kind |-> "dict"]
TrendText == [kind |-> "text"]

\* what _llm_json can give build_trends_section: an exception, JSON that is
\* no mapping, or a mapping with a "trends" list
TrendsRaises  == [kind |-> "raises", trends |-> <<>>]
TrendsNotDict == [kind |-> "not_dict", trends |-> <<>>]
TrendsReplies ==
    { TrendsRaises, TrendsNotDict,
      [kind |-> "dict", trends |-> <<>>],
      [kind |-> "dict", trends |-> <<TrendDict, TrendDict, TrendDict, TrendDict>>],
      [kind |-> "dict", trends |-> <<TrendDict, TrendDict, TrendDict, TrendText>>],
      [kind |-> "dict", trends |-> <<TrendDict, TrendText>>] }

\* the keys of collected whose lists build_trends_section walks, in the
\* order __main__ inserted them
RECURSIVE Flatten(_)
Flatten(lists) ==
    IF lists = <<>> THEN <<>> ELSE Head(lists) \o Flatten(Tail(lists))

\* src/main.py:354-357: every element of every list of collected; the
\* elements under "_games_fallback_urls" are URL strings
TrendsPoolItems(c) ==
    Flatten(<<c["news_rss"], c["poker_rss"], c["bingo_rss"], c["games_rss"],
              c["podcasts_listennotes"]>>)

\* what the steps of the run before build_games_section leave alone
runRest == <<top, fetched, ranked_extra, used_links, used_titles, news,
             items, out, out2, sumVars>>

InitRun ==
    /\ pc = "start"
    /\ src \in Sources
    /\ trends = <<>>
    /\ trends_asked = FALSE
    /\ abort_line = 0
    /\ focus = None
    /\ major_terms = <<>>
    /\ GamesIdle
    /\ items = <<>>
    /\ out = <<>>
    /\ out2 = <<>>
    /\ SumIdle

\* src/main.py:670-671
ParseConfig ==
    /\ pc = "start"
    /\ focus' = parse_focus(src)
    /\ IF MajorTermsRaises(src)
       THEN /\ pc' = "aborted"
            /\ abort_line' = 671
            /\ UNCHANGED major_terms
       ELSE /\ pc' = "collect_rss"
            /\ major_terms' = MajorTerms(src)
            /\ UNCHANGED abort_line
    /\ UNCHANGED <<src, trends, collected, trends_asked, runRest>>

\* the loop over the RSS sections, src/main.py:676-685
CollectRss ==
    /\ pc = "collect_rss"
    /\ \E replies \in [RssSections -> NewsReplies \cup PokerReplies \cup GamesReplies] :
          /\ \A sec \in RssSections :
                replies[sec] \in SectionReplies(sec) \cup {FeedFailed}
          /\ collected' =
                [sec \in RssSections |->
                    MainBucket(sec,
                               collect_rss_items(sec,
                                   [i \in 1..Len(src[sec]) |-> replies[sec]], 0),
                               focus, major_terms)]
    /\ pc' = "collect_pods"
    /\ UNCHANGED <<src, trends, abort_line, focus, major_terms, trends_asked, runRest>>

\* src/main.py:688-692
CollectPodcasts ==
    /\ pc = "collect_pods"
    /\ LET queries == src.podcasts_listennotes_queries
       IN  \E replies \in [1..Len(queries) -> SearchReplies] :
              collected' = WithFallbackUrls(collected, src.games_fallback_rss,
                              collect_listennotes_items(queries, replies,
                                                        major_terms, focus))
    /\ pc' = "must_include"
    /\ UNCHANGED <<src, trends, abort_line, focus, major_terms, trends_asked, runRest>>

\* src/main.py:695-701
InjectMustInclude ==
    /\ pc = "must_include"
    /\ \E pages \in [1..Len(src.must_include) -> PageReplies] :
          LET manual_items == inject_must_include(src.must_include, pages)
          IN  collected' =
                IF manual_items # <<>>
                THEN [collected EXCEPT !["news_rss"] =
                        apply_focus_filter(dedup_items(@ \o manual_items),
                                           focus, major_terms)]
                ELSE collected
    /\ pc' = "log"
    /\ UNCHANGED <<src, trends, abort_line, focus, major_terms, trends_asked, runRest>>

\* try_log_to_sheets(collected), src/main.py:637-665: whatever the Audit Log
\* does, the exception is caught and nothing of the run changes
LogToSheets ==
    /\ pc = "log"
    /\ \E logged \in BOOLEAN : pc' = "trends"
    /\ UNCHANGED <<src, trends, abort_line, collected, focus, major_terms, trends_asked, runRest>>

\* build_trends_section(collected, focus), src/main.py:353-410, called from
\* build_email, src/main.py:540
BuildTrends ==
    /\ pc = "trends"
    /\ IF collected["_games_fallback_urls"] # <<>>
       THEN \* it.get on a URL string, src/main.py:357
            /\ pc' = "aborted"
            /\ abort_line' = 357
            /\ UNCHANGED <<trends, trends_asked>>
       ELSE IF TrendsPoolItems(collected) = <<>>
       THEN \* src/main.py:358-359
            /\ pc' = "games"
            /\ UNCHANGED <<trends, trends_asked, abort_line>>
       ELSE IF focus = None
       THEN \* focus.get on None, src/main.py:370
            /\ pc' = "aborted"
            /\ abort_line' = 370
            /\ UNCHANGED <<trends, trends_asked>>
       ELSE \E reply \in TrendsReplies :
               LET t == IF reply.kind = "dict"
                        THEN Prefix(reply.trends, TRENDS_TARGET)
                        ELSE <<>>
               IN  /\ trends_asked' = TRUE
                   /\ trends' = t
                   /\ IF \E i \in 1..Len(t) : t[i].kind # "dict"
                      THEN \* t.get on an entry that is no mapping, src/main.py:393
                           /\ pc' = "aborted"
                           /\ abort_line' = 393
                      ELSE /\ pc' = "games"
                           /\ UNCHANGED abort_line
    /\ UNCHANGED <<src, collected, focus, major_terms, runRest>>

\* send_mail(subject, plain, html_body), src/main.py:707
SendMail ==
    /\ pc = "email_built"
    /\ \E delivered \in BOOLEAN :
          pc' = IF delivered THEN "sent" ELSE "send_failed"
    /\ UNCHANGED <<src, trends, abort_line, collected, focus, major_terms, trends_asked, runRest>>

Next ==
    \/ ParseConfig
    \/ CollectRss
    \/ CollectPodcasts
    \/ InjectMustInclude
    \/ LogToSheets
    \/ BuildTrends
    \/ BuildGamesSection
    \/ FilterNews
    \/ SendMail

Spec == InitRun /\ [][Next]_vars

\* C3: with the required configuration present, nothing the Feed Source, the
\* Completion Service or the Audit Log does, no FocusConfig value and no
\* content of the sources configuration aborts the run between startup and
\* send_mail.
Cex_C3_RunReachesSendMail ==
    abort_line = 0

\* the buckets of collected that hold Items
ItemBuckets == {sec \in DOMAIN collected : sec # "_games_fallback_urls"}

\* C12: every Item that enters a collected bucket, from the feeds, the
\* podcast search or the must-include URLs, has a title and a link that are
\* non-empty after trimming and an HTML-stripped summary of at most 2500
\* characters.
Cex_C12_NormalizedItems ==
    \A sec \in ItemBuckets :
        \A i \in 1..Len(collected[sec]) :
            /\ Strip(collected[sec][i].title) # <<>>
            /\ Strip(collected[sec][i].link) # <<>>
            /\ strip_tags(collected[sec][i].summary) = collected[sec][i].summary
            /\ Len(collected[sec][i].summary) <= SUMMARY_MAX

\* build_trends_section has been entered and has ended, one way or another
TrendsEnded == pc \in {"games", "news", "email_built", "sent", "send_failed"}
                 \/ abort_line \in {357, 370, 393}

\* C13: for any collected Items, any FocusConfig, present or absent, and
\* any Completion Service behaviour, build_trends_section yields between 0
\* and TRENDS_TARGET trend narratives, and with zero collected Items it
\* yields none without calling the Completion Service.
Cex_C13_TrendsZeroToThree ==
    (TrendsEnded /\ collected["_games_fallback_urls"] = <<>>) =>
        /\ abort_line = 0
        /\ Len(trends) <= TRENDS_TARGET
        /\ TrendsPoolItems(collected) = <<>> => (trends = <<>> /\ ~trends_asked)

\* C15: for every URL configured under must_include, the news bucket handed
\* to build_email contains an Item whose link is that URL, whether or not
\* the URL's metadata could be fetched and whether or not a FocusConfig is
\* present.
Cex_C15_MustIncludePresent ==
    pc = "trends" =>
        \A i \in 1..Len(src.must_include) :
            \E k \in 1..Len(collected["news_rss"]) :
                collected["news_rss"][k].link = src.must_include[i]

====
